---- MODULE Spec2Model ----
(***************************************************************************)
(* pySecMaster cross_validator.py: cross_validate(db_location, table,      *)
(* tsid_list, weights_df).                                                 *)
(*                                                                         *)
(* The price table is a sequence of rows in storage order.  Row and column *)
(* labels of the pandas frames (data vendor ids and price field names) are *)
(* both written as strings, because the code compares a label of either    *)
(* kind with the exclude list and with weights_df['data_vendor_id'].  A    *)
(* frame is [index, columns, values] with values[i][j] the cell of row i   *)
(* and column j.                                                           *)
(***************************************************************************)
EXTENDS Integers, Sequences, FiniteSets, TLC

\* ---------------------------------------------------------------- bounds
MaxDate == 2
MaxRuns == 2

\* ------------------------------------------------------------- constants
Tsids == {"A", "B"}
Dates == 1..MaxDate
\* columns of the price frames (line 72-73)
Fields == <<"open", "high", "low", "close", "volume">>
FieldSet == {Fields[n] : n \in 1..Len(Fields)}
\* the name looked up at lines 49 and 157
ConsensusName == "pySecMaster_Consensus"
\* data_vendor_id the data_vendor table holds for ConsensusName once the
\* vendor is registered, and what the lookup yields while it is not
ConsensusVendorId == "3"
UnknownVendor == "Unknown"
RawVendors == {"1", "2"}

Flat(v) == [f \in FieldSet |-> v]
P10 == Flat(10)
P12 == Flat(12)
PMix == [f \in FieldSet |-> IF f \in {"high", "close"} THEN 12 ELSE 10]

Obs(v, px) == [data_vendor_id |-> v, px |-> px]

\* what one (tsid, date) of the stored observations may hold at the start
CellOptions(t) ==
    IF t = "A"
    THEN { <<>>,
           <<Obs("1", P10), Obs("2", P12)>>,
           <<Obs("1", PMix), Obs("2", P10)>>,
           <<Obs("1", P10), Obs(ConsensusVendorId, P12)>>,
           <<Obs(ConsensusVendorId, P12)>> }
    ELSE { <<>>, <<Obs("1", P12)>> }

HasConsensus(cell) ==
    \E n \in 1..Len(cell) : cell[n].data_vendor_id = ConsensusVendorId

\* weights_df as the caller builds it: rows in order, and whether the frame
\* carries the default integer index 0..n-1 (lines 206-208) or labels that
\* are not integers
WRow(v, w) == [data_vendor_id |-> v, consensus_weight |-> w]
WeightTables ==
    { [int_index |-> TRUE,  rows |-> <<WRow("1", 20), WRow("2", 50)>>],
      [int_index |-> FALSE, rows |-> <<WRow("1", 20), WRow("2", 50)>>],
      [int_index |-> FALSE, rows |-> <<WRow("1", 50), WRow("2", 20),
                                       WRow(ConsensusVendorId, 20)>>],
      [int_index |-> FALSE, rows |-> <<WRow("1", 20)>>] }

\* tsid_list: the active tsids, each once
TsidLists == { <<"A">>, <<"A", "B">>, <<"B", "A">> }

\* ------------------------------------------------------------------ state
VARIABLES
    db,                      \* the price table, rows in storage order
    vendor_known,            \* data_vendor has a row for ConsensusName
    broken,                  \* (tsid, date) whose xs() raises KeyError
    weights_df, tsid_list,   \* arguments of cross_validate
    pc, run,
    source_id_exclude_list,
    tsid_pos,                \* position of the for loop of line 59
    tsid_prices_df, unique_dates, unique_sources,
    date_pos,                \* position of the for loop of line 78
    period_df,               \* <<>> while the local is unbound
    consensus_price_df,
    validator_id, delete_status,
    raised,                  \* exception that left cross_validate
    issued,                  \* collaborator calls of the current tsid
    db_at_fetch,             \* db when the current tsid was fetched
    db_prev_run,             \* db when the previous invocation ended
    calls_ok, prev_calls_ok, \* every delete/append so far reported success
    registered_since,        \* the vendor was registered after the last run
    env_changed,             \* ... and before this run started
    voters,                  \* labels that entered a support map this run
    written_ids,             \* ids under which consensus rows were appended
    field_data,              \* the Series scanned last (line 101)
    field_consensus,         \* its support map (line 106)
    append_status,           \* outcome of the last df_to_sql call
    workers, seq_db          \* a pool of per-tsid workers; the table a
                             \* sequential call ends with

voter_locals == <<field_data, field_consensus>>
pool == <<workers, seq_db>>

vars == <<db, vendor_known, broken, weights_df, tsid_list, pc, run,
          source_id_exclude_list, tsid_pos, tsid_prices_df, unique_dates,
          unique_sources, date_pos, period_df, consensus_price_df,
          validator_id, delete_status, raised, issued, db_at_fetch,
          db_prev_run, calls_ok, prev_calls_ok, registered_since,
          env_changed, voters,
          written_ids, voter_locals, append_status, pool>>

\* ---------------------------------------------------------------- helpers
Max(S) == CHOOSE x \in S : \A y \in S : y <= x
Range(s) == {s[n] : n \in 1..Len(s)}

\* order of first appearance, as Index.unique() yields it
\* the distinct elements in ascending order
UniqueSorted(s) ==
    LET S == Range(s)
    IN [i \in 1..Cardinality(S) |->
           CHOOSE x \in S : Cardinality({y \in S : y < x}) = i - 1]

RECURSIVE Unique(_)
Unique(s) ==
    IF s = <<>> THEN <<>>
    ELSE LET front == Unique(SubSeq(s, 1, Len(s) - 1))
             last == s[Len(s)]
         IN IF last \in Range(front) THEN front ELSE Append(front, last)

RECURSIVE Concat(_, _)
Concat(f, n) == IF n = 0 THEN <<>> ELSE Concat(f, n - 1) \o f[n]

StoredRow(t, d, o) ==
    [tsid |-> t, date |-> d, data_vendor_id |-> o.data_vendor_id, px |-> o.px]

SeriesRows(t, cells) ==
    Concat([d \in Dates |-> [n \in 1..Len(cells[d]) |->
                                StoredRow(t, d, cells[d][n])]], MaxDate)

Count(table, r) == Cardinality({n \in 1..Len(table) : table[n] = r})
SameRows(t1, t2) ==
    \A r \in Range(t1) \cup Range(t2) : Count(t1, r) = Count(t2, r)


\* ---------------------------------------------------------- collaborators
\* utilities.database_queries, reached only through these four calls

\* retrieve_data_vendor_id(db_location, name)
retrieve_data_vendor_id(name) ==
    IF name = ConsensusName /\ vendor_known THEN ConsensusVendorId
    ELSE UnknownVendor

\* query_all_tsid_prices(db_location, table, tsid): the stored rows of the
\* tsid, indexed by (date, data_vendor_id)
query_all_tsid_prices(tsid) == SelectSeq(db, LAMBDA r : r.tsid = tsid)

\* the same query on a given content of the table
query_prices_of(table, tsid) == SelectSeq(table, LAMBDA r : r.tsid = tsid)

\* a DELETE statement without the data_vendor_id condition
delete_query_any_vendor(r, tsid, vendor_id) == r.tsid = tsid

\* lines 169-172: the rows the DELETE statement names
delete_query(r, tsid, vendor_id) ==
    r.tsid = tsid /\ r.data_vendor_id = vendor_id

\* delete_sql_table_rows(query=delete_query): the table after the DELETE
delete_sql_table_rows(table, tsid, vendor_id) ==
    SelectSeq(table, LAMBDA r : ~delete_query(r, tsid, vendor_id))

\* df_to_sql(df, sql_table, exists='append', item=tsid): the table after
\* the frame's rows were appended for the tsid
df_to_sql(table, df, item) ==
    table \o [n \in 1..Len(df) |->
                 [tsid |-> item, date |-> df[n].date,
                  data_vendor_id |-> df[n].data_vendor_id, px |-> df[n].px]]

\* ------------------------------------------------------------ pandas ops
\* DataFrame.xs(date, level='date') on the fetched rows
xs(df, date) ==
    LET rows == SelectSeq(df, LAMBDA r : r.date = date)
    IN [index   |-> [n \in 1..Len(rows) |-> rows[n].data_vendor_id],
        columns |-> Fields,
        values  |-> [n \in 1..Len(rows) |->
                        [j \in 1..Len(Fields) |-> rows[n].px[Fields[j]]]]]

\* DataFrame.transpose()
transpose(df) ==
    [index   |-> df.columns,
     columns |-> df.index,
     values  |-> [j \in 1..Len(df.columns) |->
                     [n \in 1..Len(df.index) |-> df.values[n][j]]]]

\* an assignment that adds a row for every value it stores
ix_append(cdf, date, field_index, value) ==
    Append(cdf, [date |-> date, px |-> [f \in {field_index} |-> value]])

\* consensus_price_df.ix[date, field_index] = value (line 153): sets the
\* cell, enlarging the frame by a row for a date it does not hold yet
ix_set(cdf, date, field_index, value) ==
    LET put(px) == [f \in DOMAIN px \cup {field_index} |->
                       IF f = field_index THEN value ELSE px[f]]
    IN IF \E n \in 1..Len(cdf) : cdf[n].date = date
       THEN [n \in 1..Len(cdf) |->
                IF cdf[n].date = date
                THEN [cdf[n] EXCEPT !.px = put(cdf[n].px)] ELSE cdf[n]]
       ELSE Append(cdf, [date |-> date, px |-> put(<<>>)])

\* ------------------------------------------------------------- the voter
\* a voter without the exclude test
ExcludedNever(source) == FALSE

\* line 116: the source is one of the excluded ids
Excluded(source) == source \in Range(source_id_exclude_list)

\* lines 119-121: the rows of weights_df whose data_vendor_id equals the
\* source; the Series keeps the index labels of weights_df, and row n of a
\* default index has label n - 1
SourceWeight(source) ==
    [int_index |-> weights_df.int_index,
     pos |-> {n \in 1..Len(weights_df.rows) :
                 weights_df.rows[n].data_vendor_id = source}]

\* a lookup that takes a missing weight for zero
GetItem0Default(sw) ==
    [ok |-> TRUE,
     w |-> IF sw.pos = {} THEN 0
           ELSE weights_df.rows[CHOOSE n \in sw.pos :
                    \A m \in sw.pos : n <= m].consensus_weight]

\* source_weight[0] (lines 130, 135, 148): on an integer index 0 is a
\* label, on any other index it is a position; a Series without that label
\* or position raises KeyError / IndexError
GetItem0(sw) ==
    IF sw.int_index
    THEN IF \E n \in sw.pos : n - 1 = 0
         THEN [ok |-> TRUE, w |-> weights_df.rows[1].consensus_weight]
         ELSE [ok |-> FALSE, w |-> 0]
    ELSE IF sw.pos # {}
         THEN [ok |-> TRUE,
               w |-> weights_df.rows[CHOOSE n \in sw.pos :
                         \A m \in sw.pos : n <= m].consensus_weight]
         ELSE [ok |-> FALSE, w |-> 0]

\* a map that keeps the weight of the last source of each value
AddSupportLast(fc, value, w) ==
    [v \in DOMAIN fc \cup {value} |-> IF v = value THEN w ELSE fc[v]]

\* lines 123-148: one source's value goes into field_consensus
AddSupport(fc, value, w) ==
    IF DOMAIN fc # {}
    THEN IF value \in DOMAIN fc
         THEN [fc EXCEPT ![value] = @ + w]
         ELSE [v \in DOMAIN fc \cup {value} |->
                  IF v = value THEN w ELSE fc[v]]
    ELSE [v \in {value} |-> w]

\* lines 110-148: the loop over field_data.iteritems()
RECURSIVE ScanSources(_, _, _, _)
ScanSources(labels, vals, n, acc) ==
    IF n > Len(labels) \/ acc.raised # "none" THEN acc
    ELSE IF Excluded(labels[n]) THEN ScanSources(labels, vals, n + 1, acc)
    ELSE LET sw == GetItem0(SourceWeight(labels[n]))
         IN IF ~sw.ok THEN [acc EXCEPT !.raised = "LookupError"]
            ELSE ScanSources(labels, vals, n + 1,
                     [acc EXCEPT !.fc = AddSupport(@, vals[n], sw.w),
                                 !.used = @ \cup {labels[n]}])

\* line 152: max(field_consensus.keys())
ConsensusValue(fc) == Max(DOMAIN fc)

\* lines 101-153: the loop over period_df.iterrows()
RECURSIVE FieldLoop(_, _, _, _)
FieldLoop(pdf, date, n, acc) ==
    IF n > Len(pdf.index) \/ acc.raised # "none" THEN acc
    ELSE LET fd == [index |-> pdf.columns, values |-> pdf.values[n]]
             scan == ScanSources(fd.index, fd.values, 1,
                         [raised |-> "none", fc |-> <<>>, used |-> {}])
             seen == [acc EXCEPT !.fd = fd, !.fc = scan.fc,
                                 !.used = @ \cup scan.used]
         IN IF scan.raised # "none"
            THEN [seen EXCEPT !.raised = scan.raised]
            ELSE IF DOMAIN scan.fc = {}
            THEN [seen EXCEPT !.raised = "ValueError"]
            ELSE FieldLoop(pdf, date, n + 1,
                     [seen EXCEPT
                        !.cdf = ix_set(@, date, pdf.index[n],
                                       ConsensusValue(scan.fc))])

\* lines 86-153: the body of the loop over unique_dates.  The finally
\* clause runs whether or not xs() raised KeyError, on whatever period_df
\* is bound to by then
PeriodBodyOn(loc, tsid, date) ==
    LET got == IF <<tsid, date>> \in broken THEN loc.period_df
               ELSE <<xs(loc.tsid_prices_df, date)>>
    IN IF got = <<>>
       THEN [raised |-> "UnboundLocalError", cdf |-> loc.consensus_price_df,
             used |-> {}, period_df |-> got,
             fd |-> loc.field_data, fc |-> loc.field_consensus]
       ELSE LET pdf == transpose(got[1])
                res == FieldLoop(pdf, date, 1,
                          [raised |-> "none", cdf |-> loc.consensus_price_df,
                           used |-> {}, fd |-> loc.field_data,
                           fc |-> loc.field_consensus])
            IN [raised |-> res.raised, cdf |-> res.cdf, used |-> res.used,
                period_df |-> <<pdf>>, fd |-> res.fd, fc |-> res.fc]

\* the body on the locals of the running invocation
PeriodBody(tsid, date) ==
    PeriodBodyOn([tsid_prices_df |-> tsid_prices_df,
                  period_df |-> period_df,
                  consensus_price_df |-> consensus_price_df,
                  field_data |-> field_data,
                  field_consensus |-> field_consensus], tsid, date)

\* line 158: consensus_price_df.insert(0, 'data_vendor_id', validator_id)
insert_vendor(cdf, id) ==
    [n \in 1..Len(cdf) |->
        [date |-> cdf[n].date, data_vendor_id |-> id, px |-> cdf[n].px]]


\* line 49: the vendor names to ignore
source_exclude_list == <<ConsensusName>>

\* a resolver that drops every source once one name is not resolved
ExcludeIdsOrAll(names) ==
    LET ids == [n \in 1..Len(names) |-> retrieve_data_vendor_id(names[n])]
    IN IF UnknownVendor \in Range(ids) THEN ids \o <<"1", "2">> ELSE ids

\* lines 51-55: the id of every name, in order
ExcludeIds(names) ==
    [n \in 1..Len(names) |-> retrieve_data_vendor_id(names[n])]

\* ---------------------------------------------------------------- actions
CurrentTsid == tsid_list[tsid_pos]

\* the state cross_validate is called in for the first time
BeforeFirstCall ==
    /\ written_ids = {}
    /\ weights_df \in WeightTables
    /\ tsid_list \in TsidLists
    /\ pc = "idle"
    /\ run = 0
    /\ source_id_exclude_list = <<>>
    /\ tsid_pos = 1
    /\ tsid_prices_df = <<>>
    /\ unique_dates = <<>>
    /\ unique_sources = {}
    /\ date_pos = 1
    /\ period_df = <<>>
    /\ consensus_price_df = <<>>
    /\ validator_id = UnknownVendor
    /\ delete_status = "unbound"
    /\ raised = "none"
    /\ issued = <<>>
    /\ db_at_fetch = db
    /\ db_prev_run = db
    /\ calls_ok = TRUE
    /\ prev_calls_ok = TRUE
    /\ registered_since = FALSE
    /\ env_changed = FALSE
    /\ voters = {}
    /\ field_data = <<>>
    /\ field_consensus = <<>>
    /\ append_status = "unbound"
    /\ workers = <<>>
    /\ seq_db = <<>>

Init ==
    /\ \E known \in BOOLEAN, cb \in CellOptions("B"),
          ca \in [Dates -> CellOptions("A")], bad \in {0} \cup Dates :
          /\ known \/ \A d \in Dates : ~HasConsensus(ca[d])
          /\ bad # 0 => ca[bad] # <<>>
          /\ vendor_known = known
          /\ db = SeriesRows("A", ca) \o SeriesRows("B", [d \in Dates |-> cb])
          /\ broken = IF bad = 0 THEN {} ELSE {<<"A", bad>>}
    /\ BeforeFirstCall

\* the data_vendor table gains the consensus vendor between two invocations
RegisterVendor ==
    /\ pc \in {"returned", "raised"}
    /\ ~vendor_known
    /\ vendor_known' = TRUE
    /\ registered_since' = TRUE
    /\ UNCHANGED <<db, broken, weights_df, tsid_list, pc, run,
                   source_id_exclude_list, tsid_pos, tsid_prices_df,
                   unique_dates, unique_sources, date_pos, period_df,
                   consensus_price_df, validator_id, delete_status, raised,
                   issued, db_at_fetch, db_prev_run, calls_ok, prev_calls_ok,
                   env_changed, voters, written_ids, voter_locals,
                   append_status, pool>>

\* lines 45-55: a call of cross_validate builds the exclude list
ResolveExcludes ==
    /\ pc \in {"idle", "returned", "raised"}
    /\ run < MaxRuns
    /\ run' = run + 1
    /\ source_id_exclude_list' = ExcludeIds(source_exclude_list)
    /\ tsid_pos' = 1
    /\ period_df' = <<>>
    /\ delete_status' = "unbound"
    /\ raised' = "none"
    /\ pc' = "tsid_loop"
    /\ db_prev_run' = db
    /\ prev_calls_ok' = calls_ok
    /\ calls_ok' = TRUE
    /\ env_changed' = registered_since
    /\ registered_since' = FALSE
    /\ voters' = {}
    /\ issued' = <<>>
    /\ tsid_prices_df' = <<>>
    /\ unique_dates' = <<>>
    /\ unique_sources' = {}
    /\ date_pos' = 1
    /\ consensus_price_df' = <<>>
    /\ validator_id' = UnknownVendor
    /\ db_at_fetch' = db
    /\ field_data' = <<>>
    /\ field_consensus' = <<>>
    /\ append_status' = "unbound"
    /\ UNCHANGED <<db, vendor_known, broken, weights_df, tsid_list,
                   written_ids, pool>>

\* lines 59-75: the next tsid is fetched
FetchPrices ==
    /\ pc = "tsid_loop"
    /\ tsid_pos <= Len(tsid_list)
    /\ LET df == query_all_tsid_prices(CurrentTsid)
       IN /\ tsid_prices_df' = df
          /\ unique_dates' = Unique([n \in 1..Len(df) |-> df[n].date])
          /\ unique_sources' = {df[n].data_vendor_id : n \in 1..Len(df)}
    /\ consensus_price_df' = <<>>
    /\ date_pos' = 1
    /\ pc' = "date_loop"
    /\ issued' = <<>>
    /\ append_status' = "unbound"
    /\ db_at_fetch' = db
    /\ UNCHANGED <<db, vendor_known, broken, weights_df, tsid_list, run,
                   source_id_exclude_list, tsid_pos, period_df, validator_id,
                   delete_status, raised, db_prev_run, calls_ok,
                   prev_calls_ok, registered_since, env_changed, voters,
                   written_ids, voter_locals, pool>>

\* lines 78-153: one period of the tsid is voted, or an exception leaves
\* cross_validate
VotePeriod ==
    /\ pc = "date_loop"
    /\ date_pos <= Len(unique_dates)
    /\ LET res == PeriodBody(CurrentTsid, unique_dates[date_pos])
       IN /\ period_df' = res.period_df
          /\ voters' = voters \cup res.used
          /\ field_data' = res.fd
          /\ field_consensus' = res.fc
          /\ consensus_price_df' = res.cdf
          /\ IF res.raised = "none"
             THEN /\ date_pos' = date_pos + 1
                  /\ UNCHANGED <<pc, raised>>
             ELSE /\ pc' = "raised"
                  /\ raised' = res.raised
                  /\ UNCHANGED date_pos
    /\ UNCHANGED <<db, vendor_known, broken, weights_df, tsid_list, run,
                   source_id_exclude_list, tsid_pos, tsid_prices_df,
                   unique_dates, unique_sources, validator_id, delete_status,
                   issued, db_at_fetch, db_prev_run, calls_ok, prev_calls_ok,
                   registered_since, env_changed, written_ids, append_status,
                   pool>>

\* a loop that is left after its first period
FirstPeriodVoted == date_pos > 1 \/ unique_dates = <<>>

\* line 78: the loop over unique_dates is exhausted
AllPeriodsVoted == date_pos > Len(unique_dates)

\* lines 155-158: the consensus frame is tagged with the vendor id
TagConsensus ==
    /\ pc = "date_loop"
    /\ AllPeriodsVoted
    /\ validator_id' = retrieve_data_vendor_id(ConsensusName)
    /\ consensus_price_df' = insert_vendor(consensus_price_df, validator_id')
    /\ pc' = "write_back"
    /\ UNCHANGED <<db, vendor_known, broken, weights_df, tsid_list, run,
                   source_id_exclude_list, tsid_pos, tsid_prices_df,
                   unique_dates, unique_sources, date_pos, period_df,
                   delete_status, raised, issued, db_at_fetch, db_prev_run,
                   calls_ok, prev_calls_ok, registered_since, env_changed,
                   voters, written_ids, voter_locals, append_status, pool>>

\* a gate that never sees the rows of an earlier run
StoredNeverSeen == FALSE

\* line 164: consensus rows of this tsid were fetched
ConsensusAlreadyStored == validator_id \in unique_sources

\* an append that does not look at the delete status
AppendUngated(status) == TRUE

\* line 177: the append is issued
AppendAllowed(status) == status = "success"

\* lines 164-177: the rows of an earlier run are deleted
DeleteRows ==
    /\ pc = "write_back"
    /\ ConsensusAlreadyStored
    /\ \E ok \in BOOLEAN :
          /\ delete_status' = IF ok THEN "success" ELSE "failure"
          /\ db' = IF ok
                   THEN delete_sql_table_rows(db, CurrentTsid, validator_id)
                   ELSE db
          /\ calls_ok' = (calls_ok /\ ok)
    /\ issued' = Append(issued, "delete")
    /\ IF AppendAllowed(delete_status')
       THEN pc' = "append" /\ UNCHANGED tsid_pos
       ELSE pc' = "tsid_loop" /\ tsid_pos' = tsid_pos + 1
    /\ UNCHANGED <<vendor_known, broken, weights_df, tsid_list, run,
                   source_id_exclude_list, tsid_prices_df, unique_dates,
                   unique_sources, date_pos, period_df, consensus_price_df,
                   validator_id, raised, db_at_fetch, db_prev_run,
                   prev_calls_ok, registered_since, env_changed, voters,
                   written_ids, voter_locals, append_status, pool>>

\* the call of df_to_sql at lines 180-181 and at lines 185-186
AppendRows ==
    /\ \E ok \in BOOLEAN :
          /\ db' = IF ok THEN df_to_sql(db, consensus_price_df, CurrentTsid)
                   ELSE db
          /\ calls_ok' = (calls_ok /\ ok)
          /\ append_status' = IF ok THEN "success" ELSE "failure"
          /\ written_ids' = IF ok /\ consensus_price_df # <<>>
                            THEN written_ids \cup {validator_id}
                            ELSE written_ids
    /\ issued' = Append(issued, "append")
    /\ pc' = "tsid_loop"
    /\ tsid_pos' = tsid_pos + 1
    /\ UNCHANGED <<vendor_known, broken, weights_df, tsid_list, run,
                   source_id_exclude_list, tsid_prices_df, unique_dates,
                   unique_sources, date_pos, period_df, consensus_price_df,
                   validator_id, delete_status, raised, db_at_fetch,
                   db_prev_run, prev_calls_ok, registered_since, env_changed,
                   voters, voter_locals, pool>>

\* lines 177-181: the append that follows a successful delete
AppendAfterDelete ==
    /\ pc = "append"
    /\ AppendRows

\* lines 183-186: the append when no consensus rows were fetched
AppendDirect ==
    /\ pc = "write_back"
    /\ ~ConsensusAlreadyStored
    /\ AppendRows

\* lines 188-190: the list is exhausted and cross_validate returns
Return ==
    /\ pc = "tsid_loop"
    /\ tsid_pos > Len(tsid_list)
    /\ pc' = "returned"
    /\ UNCHANGED <<db, vendor_known, broken, weights_df, tsid_list, run,
                   source_id_exclude_list, tsid_pos, tsid_prices_df,
                   unique_dates, unique_sources, date_pos, period_df,
                   consensus_price_df, validator_id, delete_status, raised,
                   issued, db_at_fetch, db_prev_run, calls_ok, prev_calls_ok,
                   registered_since, env_changed, voters, written_ids,
                   voter_locals, append_status, pool>>

Next ==
    \/ RegisterVendor
    \/ ResolveExcludes
    \/ FetchPrices
    \/ VotePeriod
    \/ TagConsensus
    \/ DeleteRows
    \/ AppendAfterDelete
    \/ AppendDirect
    \/ Return

Spec == Init /\ [][Next]_vars


\* ------------------------------------------------ the voter on one Series
MaxCand == 3
\* labels a field_data Series can carry, and the values they report
VoteLabels == RawVendors \cup {ConsensusVendorId, UnknownVendor}
VoteValues == {10, 12}

\* Series.iteritems(): the (label, value) tuples in index order (line 110)
iteritems(fd) == [n \in 1..Len(fd.index) |-> <<fd.index[n], fd.values[n]>>]

\* the Series made of a sequence of (label, value) tuples
Series(items) ==
    [index  |-> [n \in 1..Len(items) |-> items[n][1]],
     values |-> [n \in 1..Len(items) |-> items[n][2]]]

\* one row of a transposed period frame: every vendor of the period once
FieldSeries ==
    { Series(items) :
        items \in { q \in UNION {[1..k -> VoteLabels \X VoteValues] :
                                    k \in 0..MaxCand} :
                      \A i, j \in 1..Len(q) : q[i][1] = q[j][1] => i = j } }

\* the locals of cross_validate that the field loop does not touch
OutsideFieldLoop ==
    /\ db = <<>>
    /\ vendor_known \in BOOLEAN
    /\ broken = {}
    /\ tsid_list = <<"A">>
    /\ run = 1
    /\ tsid_pos = 1
    /\ tsid_prices_df = <<>>
    /\ unique_dates = <<>>
    /\ unique_sources = {}
    /\ date_pos = 1
    /\ period_df = <<>>
    /\ consensus_price_df = <<>>
    /\ validator_id = UnknownVendor
    /\ delete_status = "unbound"
    /\ issued = <<>>
    /\ db_at_fetch = <<>>
    /\ db_prev_run = <<>>
    /\ calls_ok = TRUE
    /\ prev_calls_ok = TRUE
    /\ registered_since = FALSE
    /\ env_changed = FALSE
    /\ written_ids = {}
    /\ append_status = "unbound"
    /\ workers = <<>>
    /\ seq_db = <<>>

\* line 101 has bound field_data; line 106 has reset field_consensus
InitVote ==
    /\ OutsideFieldLoop
    /\ weights_df \in WeightTables
    /\ source_id_exclude_list = ExcludeIds(source_exclude_list)
    /\ field_data \in FieldSeries
    /\ field_consensus = <<>>
    /\ voters = {}
    /\ raised = "none"
    /\ pc = "field_loop"

\* lines 110-152 for the Series field_data
ScanField ==
    /\ pc = "field_loop"
    /\ LET scan == ScanSources(field_data.index, field_data.values, 1,
                       [raised |-> "none", fc |-> <<>>, used |-> {}])
       IN /\ field_consensus' = scan.fc
          /\ voters' = scan.used
          /\ raised' = IF scan.raised # "none" THEN scan.raised
                       ELSE IF DOMAIN scan.fc = {} THEN "ValueError"
                       ELSE "none"
    /\ pc' = "field_done"
    /\ UNCHANGED <<db, vendor_known, broken, weights_df, tsid_list, run,
                   source_id_exclude_list, tsid_pos, tsid_prices_df,
                   unique_dates, unique_sources, date_pos, period_df,
                   consensus_price_df, validator_id, delete_status, issued,
                   db_at_fetch, db_prev_run, calls_ok, prev_calls_ok,
                   registered_since, env_changed, written_ids, field_data,
                   append_status, pool>>

NextVote == ScanField

SpecVote == InitVote /\ [][NextVote]_vars

\* ------------------------------------- a table stored in any order of date
Reverse(s) == [n \in 1..Len(s) |-> s[Len(s) + 1 - n]]

\* the rows of a tsid are stored latest date first
InitUnsorted ==
    /\ \E known \in BOOLEAN, cb \in CellOptions("B"),
          ca \in [Dates -> CellOptions("A")], bad \in {0} \cup Dates :
          /\ known \/ \A d \in Dates : ~HasConsensus(ca[d])
          /\ bad # 0 => ca[bad] # <<>>
          /\ vendor_known = known
          /\ db = Reverse(SeriesRows("A", ca))
                      \o SeriesRows("B", [d \in Dates |-> cb])
          /\ broken = IF bad = 0 THEN {} ELSE {<<"A", bad>>}
    /\ BeforeFirstCall

SpecUnsorted == InitUnsorted /\ [][Next]_vars

\* ------------------------------------------- one worker for each tsid
\* lines 78-153 for every date of the index, from given locals
\* the element of a set of one element
Only(S) == CHOOSE x \in S : TRUE

\* the locals after one pass through the body
Rebound(loc, res) ==
    [loc EXCEPT !.period_df = res.period_df,
                !.consensus_price_df = res.cdf,
                !.field_data = res.fd,
                !.field_consensus = res.fc]

RECURSIVE VoteDates(_, _, _, _)
VoteDates(loc, tsid, dates, n) ==
    IF n > Len(dates) THEN [raised |-> "none", loc |-> loc]
    ELSE Only({ IF after.raised # "none" THEN after
                ELSE VoteDates(after.loc, tsid, dates, n + 1) :
                  after \in { [raised |-> res.raised,
                               loc |-> Rebound(loc, res)] :
                                 res \in {PeriodBodyOn(loc, tsid,
                                                       dates[n])} } })

\* lines 64-153 for one tsid on a given content of the table; period_df
\* is what the previous iteration left
LoopBody(table, tsid, pdf) ==
    Only({ [raised |-> voted.raised,
            consensus_price_df |-> voted.loc.consensus_price_df,
            period_df |-> voted.loc.period_df,
            unique_sources |-> {df[n].data_vendor_id : n \in 1..Len(df)}] :
              df \in {query_prices_of(table, tsid)},
              voted \in
                  { VoteDates(loc, tsid, dates, 1) :
                      loc \in {[tsid_prices_df |-> query_prices_of(table, tsid),
                                period_df |-> pdf,
                                consensus_price_df |-> <<>>,
                                field_data |-> <<>>,
                                field_consensus |-> <<>>]},
                      dates \in {Unique([n \in 1..Len(query_prices_of(table, tsid))
                                 |-> query_prices_of(table, tsid)[n].date])} } })

\* lines 156-186 with every call reporting success: the delete, where
\* line 164 asks for one, and the append as one step on the table
DeleteThenAppend(table, tsid, cdf, sources) ==
    LET id == retrieve_data_vendor_id(ConsensusName)
        rows == insert_vendor(cdf, id)
    IN IF id \in sources
       THEN df_to_sql(delete_sql_table_rows(table, tsid, id), rows, tsid)
       ELSE df_to_sql(table, rows, tsid)

\* lines 59-186: the tsids of the list from position n on, one after the
\* other; an exception ends the loop
RECURSIVE SequentialRun(_, _, _, _)
SequentialRun(table, list, n, pdf) ==
    IF n > Len(list) THEN table
    ELSE Only({ IF body.raised # "none" THEN table
                ELSE Only({ SequentialRun(next, list, n + 1, body.period_df) :
                              next \in {DeleteThenAppend(
                                           table, list[n],
                                           body.consensus_price_df,
                                           body.unique_sources)} }) :
                  body \in {LoopBody(table, list[n], pdf)} })

InitWorkers ==
    /\ \E known \in BOOLEAN, cb \in CellOptions("B"),
          ca \in [Dates -> CellOptions("A")], bad \in {0} \cup Dates :
          /\ known \/ \A d \in Dates : ~HasConsensus(ca[d])
          /\ bad # 0 => ca[bad] # <<>>
          /\ vendor_known = known
          /\ db = SeriesRows("A", ca) \o SeriesRows("B", [d \in Dates |-> cb])
          /\ broken = IF bad = 0 THEN {} ELSE {<<"A", bad>>}
    /\ weights_df \in WeightTables
    /\ tsid_list \in TsidLists
    /\ source_id_exclude_list = ExcludeIds(source_exclude_list)
    /\ workers = [i \in 1..Len(tsid_list) |->
                     [pc |-> "fetch", consensus_price_df |-> <<>>,
                      unique_sources |-> {}]]
    /\ seq_db = <<>>
    /\ pc = "reference"
    /\ run = 1
    /\ tsid_pos = 1
    /\ tsid_prices_df = <<>>
    /\ unique_dates = <<>>
    /\ unique_sources = {}
    /\ date_pos = 1
    /\ period_df = <<>>
    /\ consensus_price_df = <<>>
    /\ validator_id = UnknownVendor
    /\ delete_status = "unbound"
    /\ raised = "none"
    /\ issued = <<>>
    /\ db_at_fetch = db
    /\ db_prev_run = db
    /\ calls_ok = TRUE
    /\ prev_calls_ok = TRUE
    /\ registered_since = FALSE
    /\ env_changed = FALSE
    /\ voters = {}
    /\ written_ids = {}
    /\ field_data = <<>>
    /\ field_consensus = <<>>
    /\ append_status = "unbound"

\* the table the tsid loop ends with is taken down before the pool starts
Reference ==
    /\ pc = "reference"
    /\ seq_db' = SequentialRun(db, tsid_list, 1, <<>>)
    /\ pc' = "pool"
    /\ UNCHANGED <<db, vendor_known, broken, weights_df, tsid_list, run,
                   source_id_exclude_list, tsid_pos, tsid_prices_df,
                   unique_dates, unique_sources, date_pos, period_df,
                   consensus_price_df, validator_id, delete_status, raised,
                   issued, db_at_fetch, db_prev_run, calls_ok, prev_calls_ok,
                   registered_since, env_changed, voters, written_ids,
                   voter_locals, append_status, workers>>

\* worker i fetches its tsid and votes all its periods, on locals of its
\* own
WorkerVote(i) ==
    /\ pc = "pool"
    /\ workers[i].pc = "fetch"
    /\ LET body == LoopBody(db, tsid_list[i], <<>>)
       IN workers' = [workers EXCEPT ![i] =
              [pc |-> IF body.raised # "none" THEN "raised" ELSE "voted",
               consensus_price_df |-> body.consensus_price_df,
               unique_sources |-> body.unique_sources]]
    /\ UNCHANGED <<db, vendor_known, broken, weights_df, tsid_list, pc, run,
                   source_id_exclude_list, tsid_pos, tsid_prices_df,
                   unique_dates, unique_sources, date_pos, period_df,
                   consensus_price_df, validator_id, delete_status, raised,
                   issued, db_at_fetch, db_prev_run, calls_ok, prev_calls_ok,
                   registered_since, env_changed, voters, written_ids,
                   voter_locals, append_status, seq_db>>

\* worker i runs its delete-then-append as one step
WorkerWrite(i) ==
    /\ workers[i].pc = "voted"
    /\ db' = DeleteThenAppend(db, tsid_list[i],
                              workers[i].consensus_price_df,
                              workers[i].unique_sources)
    /\ workers' = [workers EXCEPT ![i].pc = "done"]
    /\ UNCHANGED <<vendor_known, broken, weights_df, tsid_list, pc, run,
                   source_id_exclude_list, tsid_pos, tsid_prices_df,
                   unique_dates, unique_sources, date_pos, period_df,
                   consensus_price_df, validator_id, delete_status, raised,
                   issued, db_at_fetch, db_prev_run, calls_ok, prev_calls_ok,
                   registered_since, env_changed, voters, written_ids,
                   voter_locals, append_status, seq_db>>

NextWorkers ==
    \/ Reference
    \/ \E i \in 1..Len(tsid_list) : WorkerVote(i)
    \/ \E i \in 1..Len(tsid_list) : WorkerWrite(i)

SpecWorkers == InitWorkers /\ [][NextWorkers]_vars


\* ------------------------------------------------------------- properties
Ended == pc \in {"returned", "raised"}
ConsensusIds == {ConsensusVendorId, UnknownVendor}
TsidRows(table, t) == SelectSeq(table, LAMBDA r : r.tsid = t)
KeyCount(table, t, d, v) ==
    Cardinality({n \in 1..Len(table) :
                    /\ table[n].tsid = t
                    /\ table[n].date = d
                    /\ table[n].data_vendor_id = v})
\* the tsid that was fetched last
FetchedTsid == IF pc \in {"tsid_loop", "returned"}
              THEN tsid_list[tsid_pos - 1] ELSE tsid_list[tsid_pos]

\* C1: when every delete and append of two consecutive invocations on the
\* same inputs succeeded, the table after the second invocation holds the
\* same rows, each as many times, as the table after the first.
C1_Idempotent ==
    (run >= 2 /\ Ended /\ calls_ok /\ prev_calls_ok /\ ~env_changed)
        => SameRows(db, db_prev_run)

C1_Witness ==
    /\ run = 2 /\ pc = "returned" /\ calls_ok /\ prev_calls_ok
    /\ ~env_changed
    /\ issued = <<"delete", "append">>
    /\ \E n \in 1..Len(db) : db[n].data_vendor_id = validator_id

\* C2: once an invocation has ended, whatever deletes and appends failed,
\* the table holds at most one row per (tsid, date) carrying an identity
\* cross_validate tags its rows with.
C2_AtMostOneConsensusRow ==
    Ended => \A t \in Tsids, d \in Dates :
                 Cardinality({n \in 1..Len(db) :
                                 /\ db[n].tsid = t
                                 /\ db[n].date = d
                                 /\ db[n].data_vendor_id \in ConsensusIds}) <= 1

C2_Witness ==
    /\ run = 2 /\ pc = "returned" /\ ~calls_ok
    /\ \E t \in Tsids, d \in Dates :
          /\ KeyCount(db, t, d, validator_id) = 1
          /\ KeyCount(db_prev_run, t, d, validator_id) = 1

\* C3: when the delete issued for a tsid whose fetched sources include the
\* consensus id does not report success, no append follows and the rows of
\* that tsid are those that were stored when it was fetched.
C3_WriteGating ==
    (issued # <<>> /\ issued[1] = "delete" /\ delete_status # "success")
        => /\ pc # "append"
           /\ issued = <<"delete">>
           /\ TsidRows(db, FetchedTsid) = TsidRows(db_at_fetch, FetchedTsid)

C3_Witness ==
    /\ issued = <<"delete">> /\ delete_status = "failure"
    /\ pc = "tsid_loop"
    /\ validator_id \in unique_sources
    /\ consensus_price_df # <<>>

\* C4: no source id under which cross_validate has appended rows ever
\* enters a support map.
C4_SelfExclusion == voters \cap (written_ids \cup ConsensusIds) = {}

C4_Witness ==
    /\ run = 2 /\ pc = "write_back" /\ tsid_pos = 1 /\ voters # {}
    /\ prev_calls_ok /\ written_ids # {}
    /\ \E n \in 1..Len(tsid_prices_df) :
          tsid_prices_df[n].data_vendor_id \in written_ids


\* the periods of the fetched tsid whose vote was started
Attempted(n) == n < date_pos \/ (n = date_pos /\ pc = "raised")
RaisedAt(n) == pc = "raised" /\ n = date_pos
\* the stored rows of a period that are not of an excluded source
Cand(d) ==
    {n \in 1..Len(tsid_prices_df) :
        /\ tsid_prices_df[n].date = d
        /\ tsid_prices_df[n].data_vendor_id
               \notin Range(source_id_exclude_list)}
PeriodRows(d) ==
    {n \in 1..Len(tsid_prices_df) : tsid_prices_df[n].date = d}
HasEntry(v) ==
    \E n \in 1..Len(weights_df.rows) : weights_df.rows[n].data_vendor_id = v
Extracted(d) == <<FetchedTsid, d>> \notin broken
NoValue(d) ==
    \A n \in 1..Len(consensus_price_df) : consensus_price_df[n].date # d
Gap(d, f) ==
    \A n \in 1..Len(consensus_price_df) :
        consensus_price_df[n].date = d
            => f \notin DOMAIN consensus_price_df[n].px
Written(d, f, value) ==
    \E n \in 1..Len(consensus_price_df) :
        /\ consensus_price_df[n].date = d
        /\ f \in DOMAIN consensus_price_df[n].px
        /\ consensus_price_df[n].px[f] = value

\* C5: for every period whose block was extracted and whose candidates
\* outside the exclude list all have a row in weights_df (at least one
\* such candidate), each field of the consensus row is the largest value
\* among those candidates, whatever the weights.
C5_WinnerSelection ==
    \A n \in 1..Len(unique_dates) :
        LET d == unique_dates[n]
        IN (/\ Attempted(n) /\ Extracted(d) /\ Cand(d) # {}
            /\ \A c \in Cand(d) :
                   HasEntry(tsid_prices_df[c].data_vendor_id))
           => \A f \in FieldSet :
                  Written(d, f, Max({tsid_prices_df[c].px[f] : c \in Cand(d)}))

\* C6: a period whose candidates are all of excluded sources does not
\* raise, gets no value, and the loop goes on.
C6_GapPropagation ==
    \A n \in 1..Len(unique_dates) :
        LET d == unique_dates[n]
        IN (Attempted(n) /\ Extracted(d) /\ Cand(d) = {})
           => ~RaisedAt(n) /\ \A f \in FieldSet : Gap(d, f)

\* C7: a period with a candidate outside the exclude list that has no row
\* in weights_df ends in an exception; no consensus value is stored for it.
C7_UnresolvableWeight ==
    \A n \in 1..Len(unique_dates) :
        LET d == unique_dates[n]
        IN (/\ Attempted(n)
            /\ \E c \in Cand(d) :
                   ~HasEntry(tsid_prices_df[c].data_vendor_id))
           => RaisedAt(n) /\ NoValue(d)

C7_Witness ==
    /\ pc = "raised" /\ raised = "LookupError"
    /\ LET d == unique_dates[date_pos]
       IN /\ Extracted(d)
          /\ \E c \in Cand(d) : ~HasEntry(tsid_prices_df[c].data_vendor_id)
          /\ \E c \in Cand(d) : HasEntry(tsid_prices_df[c].data_vendor_id)

\* C8: whatever fails while a tsid is processed, cross_validate does not
\* end before every tsid of the list was fetched and its write-back tried.
C8_NoBlocking == Ended => tsid_pos > Len(tsid_list)

\* C9: a period whose block cannot be extracted is skipped: nothing is
\* raised for it and no consensus row is produced for it.
C9_CleanSkip ==
    \A n \in 1..Len(unique_dates) :
        LET d == unique_dates[n]
        IN (Attempted(n) /\ ~Extracted(d)) => ~RaisedAt(n) /\ NoValue(d)

\* C10: every row whose number of copies in the table changes in a step
\* has the tsid being processed and the consensus id of the run, never the
\* id of a price source.
C10_Frame ==
    [][\A r \in Range(db) \cup Range(db') :
          Count(db', r) # Count(db, r)
              => /\ r.tsid = CurrentTsid
                 /\ r.data_vendor_id = validator_id
                 /\ r.data_vendor_id \in ConsensusIds]_vars

C10_Witness ==
    /\ issued = <<"delete", "append">>
    /\ ~SameRows(db, db_at_fetch)
    /\ \E n \in 1..Len(db) : db[n].tsid # FetchedTsid
    /\ \E n \in 1..Len(db) : /\ db[n].tsid = FetchedTsid
                             /\ db[n].data_vendor_id \in RawVendors


\* the candidates of a Series whose source is not in the exclusion list
NotExcluded(fd) ==
    Series(SelectSeq(iteritems(fd),
                     LAMBDA it : it[1] \notin Range(source_id_exclude_list)))

\* what scanning a Series yields: the exception, the support map, and the
\* winning value where there is one
Outcome(r, fc) ==
    [raised |-> r, support |-> fc,
     winner |-> IF r = "none" THEN <<ConsensusValue(fc)>> ELSE <<>>]

ScanOutcome(fd) ==
    LET scan == ScanSources(fd.index, fd.values, 1,
                    [raised |-> "none", fc |-> <<>>, used |-> {}])
    IN Outcome(IF scan.raised # "none" THEN scan.raised
               ELSE IF DOMAIN scan.fc = {} THEN "ValueError" ELSE "none",
               scan.fc)

\* C11: a Series yields the support map and the winning value of the
\* Series left when its excluded candidates are taken out (so any two
\* Series that differ only in excluded candidates yield the same), and a
\* weights table without a row for an excluded source raises nothing.
C11_ExclusionCompleteness ==
    pc = "field_done" =>
        Outcome(raised, field_consensus) = ScanOutcome(NotExcluded(field_data))

C11_Witness ==
    /\ pc = "field_done"
    /\ raised = "none"
    /\ NotExcluded(field_data) # field_data
    /\ Len(NotExcluded(field_data).index) > 1
    /\ \E n \in 1..Len(field_data.index) :
          /\ field_data.index[n] \in Range(source_id_exclude_list)
          /\ SourceWeight(field_data.index[n]).pos = {}
          /\ field_data.values[n] \notin DOMAIN field_consensus


\* the price sources with a stored row in period d of the fetched tsid
RawSources(d) ==
    {tsid_prices_df[n].data_vendor_id : n \in PeriodRows(d)} \cap RawVendors

\* C12: while the consensus vendor name resolves to no vendor id, the
\* invocation gets into the tsid loop with no price source excluded, every
\* price source of a voted period enters the vote, an exception that ends
\* the invocation comes from a failed extraction or from a price source
\* whose weight cannot be looked up, and an invocation that returns has
\* fetched every tsid of the list.
C12_LookupFailureNonFatal ==
    (run >= 1 /\ ~vendor_known) =>
        /\ source_id_exclude_list = <<UnknownVendor>>
        /\ Range(source_id_exclude_list) \cap RawVendors = {}
        /\ \A n \in 1..Len(unique_dates) :
              (n < date_pos /\ pc # "raised")
                  => RawSources(unique_dates[n]) \subseteq voters
        /\ pc = "raised" =>
              /\ raised # "ValueError"
              /\ \/ ~Extracted(unique_dates[date_pos])
                 \/ \E v \in RawSources(unique_dates[date_pos]) :
                       ~GetItem0(SourceWeight(v)).ok
        /\ pc = "returned" => tsid_pos = Len(tsid_list) + 1

C12_Witness ==
    /\ run = 1 /\ ~vendor_known /\ pc = "returned"
    /\ Len(tsid_list) = 2
    /\ voters = RawVendors
    /\ \A t \in Tsids :
          \E n \in 1..Len(db) : /\ db[n].tsid = t
                                /\ db[n].data_vendor_id = UnknownVendor


\* the write-back of the tsid fetched last is over
WrittenBack == pc \in {"tsid_loop", "returned"} /\ tsid_pos > 1

\* C13: for each tsid the calls are none, one delete, one append, or one
\* delete followed by one append.  The delete is issued exactly when the id
\* resolved at line 156 is among the fetched sources, and a successful one
\* removes the rows of that tsid and that id and no other; an append after
\* a delete follows a delete that reported success; without the id among
\* the sources the append is the only call.
C13_ProtocolOrdering ==
    /\ [](/\ issued \in {<<>>, <<"delete">>, <<"append">>,
                        <<"delete", "append">>}
          /\ (issued # <<>> /\ issued[1] = "delete")
                 => validator_id \in unique_sources
          /\ issued = <<"append">> => validator_id \notin unique_sources
          /\ issued = <<"delete", "append">> => delete_status = "success"
          /\ WrittenBack =>
                /\ validator_id \in unique_sources
                       => (issued # <<>> /\ issued[1] = "delete")
                /\ validator_id \notin unique_sources
                       => issued = <<"append">>
                /\ issued = <<"delete">> => delete_status = "failure")
    /\ [][(issued' = Append(issued, "delete")
              /\ delete_status' = "success")
            => db' = SelectSeq(db, LAMBDA r :
                         ~(r.tsid = CurrentTsid
                             /\ r.data_vendor_id = validator_id))]_vars

C13_Witness ==
    /\ WrittenBack
    /\ issued = <<"delete", "append">>
    /\ delete_status = "success"
    /\ append_status = "success"
    /\ Len(db) > Len(db_at_fetch)
    /\ KeyCount(db_at_fetch, FetchedTsid, 1, validator_id) = 1


\* consensus_price_df is what df_to_sql gets, or got, for the fetched tsid
Handed ==
    \/ pc \in {"write_back", "append"}
    \/ pc = "tsid_loop" /\ issued # <<>> /\ issued[Len(issued)] = "append"

FetchedDates == {tsid_prices_df[n].date : n \in 1..Len(tsid_prices_df)}

\* a candidate of the period that is not excluded and whose weight resolves
HasVoter(d) ==
    \E n \in Cand(d) :
        GetItem0(SourceWeight(tsid_prices_df[n].data_vendor_id)).ok

\* C14: the frame df_to_sql gets for a tsid (every period of which then has
\* a candidate that is not excluded and has a weight) holds one row for
\* each date of the fetched rows and no other row, each with a value for
\* all five fields and tagged with the id the lookup yields.
C14_DenseOutput ==
    Handed =>
        /\ \A d \in FetchedDates :
              /\ HasVoter(d)
              /\ Cardinality({n \in 1..Len(consensus_price_df) :
                                 consensus_price_df[n].date = d}) = 1
        /\ \A n \in 1..Len(consensus_price_df) :
              /\ consensus_price_df[n].date \in FetchedDates
              /\ DOMAIN consensus_price_df[n].px = FieldSet
              /\ consensus_price_df[n].data_vendor_id = validator_id
              /\ validator_id = retrieve_data_vendor_id(ConsensusName)

C14_Witness ==
    /\ pc = "tsid_loop"
    /\ issued = <<"append">>
    /\ append_status = "success"
    /\ Cardinality(FetchedDates) = MaxDate
    /\ Len(consensus_price_df) = MaxDate
    /\ \E n \in 1..Len(consensus_price_df) :
          consensus_price_df[n].px = PMix


\* where the index of the fetched rows yields date d first
FirstAt(d) ==
    CHOOSE n \in 1..Len(tsid_prices_df) :
        /\ tsid_prices_df[n].date = d
        /\ \A m \in 1..(n - 1) : tsid_prices_df[m].date # d

IndexAscending ==
    \A m, n \in 1..Len(tsid_prices_df) :
        m < n => tsid_prices_df[m].date <= tsid_prices_df[n].date

\* C15 as stated: the rows of the consensus frame are in ascending order
\* of date, in whatever order the fetched rows list the dates.
C15_Ascending ==
    \A m, n \in 1..Len(consensus_price_df) :
        m < n => consensus_price_df[m].date < consensus_price_df[n].date

\* C15 amended: the rows of the consensus frame are in the order in which
\* the index of the fetched rows first yields their dates, which is the
\* ascending order when the index lists the dates in ascending order.
C15_IndexOrder ==
    /\ \A n \in 1..Len(consensus_price_df) :
          consensus_price_df[n].date \in FetchedDates
    /\ \A m, n \in 1..Len(consensus_price_df) :
          m < n => FirstAt(consensus_price_df[m].date)
                       < FirstAt(consensus_price_df[n].date)
    /\ IndexAscending => C15_Ascending

C15_Witness ==
    /\ Handed
    /\ ~IndexAscending
    /\ Len(consensus_price_df) = MaxDate
    /\ consensus_price_df[1].date > consensus_price_df[2].date


\* the consensus_weight weights_df holds for a source
TableWeight(source) ==
    weights_df.rows[CHOOSE n \in 1..Len(weights_df.rows) :
                       weights_df.rows[n].data_vendor_id = source]
        .consensus_weight

\* the positions of a Series whose source is not in the exclusion list
Kept(fd) ==
    {n \in 1..Len(fd.index) : fd.index[n] \notin Range(source_id_exclude_list)}

RECURSIVE WeightSum(_, _)
WeightSum(fd, S) ==
    IF S = {} THEN 0
    ELSE LET n == CHOOSE x \in S : TRUE
         IN TableWeight(fd.index[n]) + WeightSum(fd, S \ {n})

\* C16: when the scan of a Series has got through all its candidates, the
\* keys of the support map are the values reported by the sources outside
\* the exclusion list, and the entry of a key is the sum of the weights of
\* the sources outside the exclusion list that reported it; the Series
\* come in every order of their candidates.
C16_SupportMap ==
    (pc = "field_done" /\ raised # "LookupError") =>
        /\ DOMAIN field_consensus =
               {field_data.values[n] : n \in Kept(field_data)}
        /\ \A v \in DOMAIN field_consensus :
              field_consensus[v] =
                  WeightSum(field_data,
                            {n \in Kept(field_data) :
                                field_data.values[n] = v})

C16_Witness ==
    /\ pc = "field_done" /\ raised = "none"
    /\ Cardinality(DOMAIN field_consensus) > 1
    /\ field_data.values[1] > field_data.values[2]
    /\ \E v \in DOMAIN field_consensus :
          Cardinality({n \in Kept(field_data) :
                          field_data.values[n] = v}) > 1


\* no worker has a step left
WorkersEnded ==
    /\ pc = "pool"
    /\ \A i \in 1..Len(workers) : workers[i].pc \in {"done", "raised"}

\* C17: when every worker has ended, in whatever order their steps were
\* taken, the table holds the rows, each as many times, that the tsid loop
\* leaves when it runs through the same list on the same table.
C17_ConcurrentInstruments ==
    WorkersEnded => SameRows(db, seq_db)


\* every date of the fetched rows has its row with a value for each field
FullyVoted ==
    /\ date_pos > Len(unique_dates)
    /\ \A d \in FetchedDates : \A f \in FieldSet : ~Gap(d, f) /\ ~NoValue(d)

\* C18: a step changes the table only when every period and field of the
\* tsid being processed has been voted; and when an exception has cut the
\* vote of a tsid short, the table is the one that was there when the tsid
\* was fetched, with all that was written for the tsids before it.
C18_NoPartialWrite ==
    /\ [](pc = "raised" => db = db_at_fetch)
    /\ [][db' # db => (pc \in {"write_back", "append"} /\ FullyVoted)]_vars

C18_Witness ==
    /\ pc = "raised" /\ run = 1 /\ tsid_pos = 2
    /\ consensus_price_df # <<>>
    /\ Len(db) > Len(db_prev_run)
    /\ \E n \in 1..Len(db) : /\ db[n].tsid = tsid_list[1]
                             /\ db[n].data_vendor_id \in ConsensusIds


\* C19: after a delete that reported success and an append that failed,
\* the table holds no row of the tsid under the id resolved at line 156,
\* the other rows of the tsid are those fetched, in their order, no further
\* call was issued for the tsid, and the loop stands at the next tsid of
\* the list with nothing raised.
C19_AppendFailure ==
    (issued # <<>> /\ issued[1] = "delete" /\ delete_status = "success"
        /\ append_status = "failure")
        => /\ issued = <<"delete", "append">>
           /\ pc \in {"tsid_loop", "returned"}
           /\ raised = "none"
           /\ \E n \in 1..Len(db_at_fetch) :
                 /\ db_at_fetch[n].tsid = FetchedTsid
                 /\ db_at_fetch[n].data_vendor_id = validator_id
           /\ \A n \in 1..Len(db) :
                 ~(db[n].tsid = FetchedTsid
                     /\ db[n].data_vendor_id = validator_id)
           /\ TsidRows(db, FetchedTsid) =
                  SelectSeq(TsidRows(db_at_fetch, FetchedTsid),
                            LAMBDA r : r.data_vendor_id # validator_id)

C19_Witness ==
    /\ issued = <<"delete", "append">>
    /\ delete_status = "success" /\ append_status = "failure"
    /\ pc = "tsid_loop" /\ tsid_pos = Len(tsid_list)
    /\ Len(db) < Len(db_at_fetch)
    /\ consensus_price_df # <<>>
    /\ \E n \in 1..Len(db) : /\ db[n].tsid = FetchedTsid
                             /\ db[n].data_vendor_id \in RawVendors

====
